---------------------------- MODULE Spec2Model ----------------------------
(***************************************************************************)
(* A model of the oauthpersist package (src/storage.go): the two token     *)
(* storage backends (FileTokenStorage, SQLTokenStorage), the Config        *)
(* wrapper and the TokenStorageSource interceptor.                         *)
(*                                                                         *)
(* Strings are sequences of characters; a character is a TLA+ string.  The *)
(* characters encoding/csv treats specially are named below, every other   *)
(* character (or run of ordinary characters) is an ordinary atom.          *)
(* A pointer is a sequence of length 0 (nil) or 1; an error is the         *)
(* sequence of the parts of its message, the empty sequence being nil.     *)
(***************************************************************************)
EXTENDS Integers, Sequences, FiniteSets, TLC

VARIABLES
    kind,         \* which TokenStorage implementation is under test: "file" | "sql"
    StoragePath,  \* FileTokenStorage.StoragePath
    TokenId,      \* FileTokenStorage.TokenId (an interface{} value)
    fs,           \* the files <StoragePath>/<id>.csv of the existing directories
    ID,           \* SQLTokenStorage.ID: <<>> is nil, <<n>> is int64(n)
    rows,         \* table oauth2_tokens: id -> <<>> (no row) or <<row>>
    now,          \* the wall clock read by oauth2.Token.Valid
    src,          \* the token sources built by Config.TokenSource
    generated,    \* history: store.ID was left by StoreToken's INSERT (not set by the caller)
    lastGood,     \* history: the token returned by the latest successful TokenStorageSource.Token
    last,         \* the call just made: operation, argument, results and the calls it made
    inflight      \* the calls in progress: caller -> <<>> (none) or <<what the call holds>>

vars == <<kind, StoragePath, TokenId, fs, ID, rows, now, src, generated, lastGood, last, inflight>>

-----------------------------------------------------------------------------
(* Bounds *)

\* Row identifiers the table can hand out (INTEGER PRIMARY KEY, 1..MaxRowId).
MaxRowId == 2
\* The clock runs from 0 to MaxNow.
MaxNow == 3

-----------------------------------------------------------------------------
(* Characters, strings, pointers, errors *)

DQ    == "dquote"
COMMA == "comma"
CR    == "cr"
LF    == "lf"
SP    == "space"

Nil == <<>>
Ptr(x) == <<x>>
Deref(p) == p[1]

NoErr == <<>>
\* strings.Contains(err.Error(), part), for the parts the messages are built from
Contains(err, part) == \E i \in DOMAIN err : err[i] = part

-----------------------------------------------------------------------------
(* time.Time: an instant, a zone and whether it carries a monotonic clock   *)
(* reading (every value derived from time.Now() does, since Go 1.9).        *)

Zones == {"UTC", "EST"}
ZoneOffset(z) == IF z = "UTC" THEN "+0000" ELSE "-0500"
\* The wall-clock text of the instants 0..3; instant 0 is the zero Time.
DateText == <<"0001-01-01 00:00:00", "2016-01-01 00:00:01", "2016-01-01 00:00:02", "2016-01-01 00:00:03">>

Time(i, z, m) == [inst |-> i, zone |-> z, mono |-> m]
ZeroTime == Time(0, "UTC", FALSE)
IsZero(t) == t.inst = 0
\* Time.Equal: the same instant, whatever the location or the monotonic reading
TimeEqual(a, b) == a.inst = b.inst

\* Time.String(): Format("2006-01-02 15:04:05.999999999 -0700 MST"), followed by
\* " m=<reading>" when the time has a monotonic clock reading.
TimeString(t) ==
    <<DateText[t.inst + 1], SP, ZoneOffset(t.zone), SP, t.zone>>
        \o (IF t.mono THEN <<SP, "m=+3600.000000001">> ELSE <<>>)

ErrTimeParse == <<"parsing time: ", "cannot parse or extra text">>

\* time.Parse("2006-01-02 15:04:05.999999999 -0700 MST", s)
ParseTime(s) ==
    IF /\ Len(s) = 5
       /\ \E i \in DOMAIN DateText : DateText[i] = s[1]
       /\ s[2] = SP /\ s[4] = SP
       /\ s[5] \in Zones /\ s[3] = ZoneOffset(s[5])
    THEN [err |-> NoErr,
          t |-> Time((CHOOSE i \in DOMAIN DateText : DateText[i] = s[1]) - 1, s[5], FALSE)]
    ELSE [err |-> ErrTimeParse, t |-> ZeroTime]

-----------------------------------------------------------------------------
(* oauth2.Token *)

Token(a, r, e, ty) == [AccessToken |-> a, RefreshToken |-> r, Expiry |-> e, TokenType |-> ty]

tokAbc   == Token(<<"abc">>, <<"def">>, Time(2, "UTC", FALSE), <<"bearer">>)
tokNew   == Token(<<"aNewAccessToken">>, <<"aNewRefreshToken">>, Time(3, "EST", TRUE), <<"Bearer">>)
tokQuote == Token(<<"x", COMMA, DQ, "y">>, <<>>, ZeroTime, <<SP, "mac">>)
tokCRLF  == Token(<<"p", CR, LF, "q">>, <<"r">>, Time(1, "UTC", FALSE), <<"bearer">>)
tokEmpty == Token(<<>>, <<>>, ZeroTime, <<>>)

Tokens == {tokAbc, tokNew, tokQuote, tokCRLF, tokEmpty}

\* Equality of two token records in all four fields (the expiry by Time.Equal)
TokenEq(a, b) ==
    /\ a.AccessToken = b.AccessToken
    /\ a.RefreshToken = b.RefreshToken
    /\ TimeEqual(a.Expiry, b.Expiry)
    /\ a.TokenType = b.TokenType

-----------------------------------------------------------------------------
(* encoding/csv, with the default settings (Comma ',', UseCRLF false,       *)
(* LazyQuotes false, TrimLeadingSpace false, no Comment)                    *)

\* Writer.fieldNeedsQuotes
fieldNeedsQuotes(field) ==
    /\ field # <<>>
    /\ \/ \E i \in DOMAIN field : field[i] \in {COMMA, DQ, CR, LF}
       \/ field[1] = SP

\* the body of a quoted field: every quote doubled, CR and LF written as they are
RECURSIVE quoteBody(_)
quoteBody(field) ==
    IF field = <<>> THEN <<>>
    ELSE (IF Head(field) = DQ THEN <<DQ, DQ>> ELSE <<Head(field)>>) \o quoteBody(Tail(field))

csvField(field) ==
    IF fieldNeedsQuotes(field) THEN <<DQ>> \o quoteBody(field) \o <<DQ>> ELSE field

\* Writer.Write(record) followed by Flush: the bytes of one record line
RECURSIVE csvJoin(_)
csvJoin(record) ==
    IF Len(record) = 1 THEN csvField(record[1])
    ELSE csvField(Head(record)) \o <<COMMA>> \o csvJoin(Tail(record))

csvWrite(record) == csvJoin(record) \o <<LF>>

ErrEOF       == <<"EOF">>
ErrBareQuote == <<"csv: ", "bare quote in non-quoted field">>
ErrQuote     == <<"csv: ", "extraneous or missing quote in quoted field">>

\* Reader.readLine: "\r\n" is folded to "\n" on every input line
RECURSIVE foldCRLF(_)
foldCRLF(s) ==
    IF s = <<>> THEN <<>>
    ELSE IF Len(s) >= 2 /\ s[1] = CR /\ s[2] = LF THEN <<LF>> \o foldCRLF(Tail(Tail(s)))
    ELSE IF Len(s) = 1 /\ s[1] = CR THEN <<>>
    ELSE <<Head(s)>> \o foldCRLF(Tail(s))

\* Reader.readRecord skips empty lines
RECURSIVE skipEmptyLines(_)
skipEmptyLines(s) ==
    IF s # <<>> /\ Head(s) = LF THEN skipEmptyLines(Tail(s)) ELSE s

\* Reader.readRecord: the fields of the first record of s, read from position i.
\* mode: "start" (at the start of a field), "bare" (in a non-quoted field),
\* "quoted" (in a quoted field), "closed" (after the closing quote).
RECURSIVE parseRecord(_, _, _, _, _)
parseRecord(s, i, mode, cur, fields) ==
    IF i > Len(s) THEN
        IF mode = "quoted" THEN [err |-> ErrQuote, record |-> <<>>]
        ELSE [err |-> NoErr, record |-> Append(fields, cur)]
    ELSE
        LET c == s[i] IN
        CASE mode = "start" /\ c = DQ -> parseRecord(s, i + 1, "quoted", <<>>, fields)
          [] mode \in {"start", "bare"} /\ c = COMMA ->
                parseRecord(s, i + 1, "start", <<>>, Append(fields, cur))
          [] mode \in {"start", "bare"} /\ c = LF -> [err |-> NoErr, record |-> Append(fields, cur)]
          [] mode = "bare" /\ c = DQ -> [err |-> ErrBareQuote, record |-> <<>>]
          [] mode \in {"start", "bare"} /\ c \notin {COMMA, LF, DQ} ->
                parseRecord(s, i + 1, "bare", Append(cur, c), fields)
          [] mode = "quoted" /\ c = DQ /\ i < Len(s) /\ s[i + 1] = DQ ->
                parseRecord(s, i + 2, "quoted", Append(cur, DQ), fields)
          [] mode = "quoted" /\ c = DQ /\ ~(i < Len(s) /\ s[i + 1] = DQ) ->
                parseRecord(s, i + 1, "closed", cur, fields)
          [] mode = "quoted" /\ c # DQ -> parseRecord(s, i + 1, "quoted", Append(cur, c), fields)
          [] mode = "closed" /\ c = COMMA ->
                parseRecord(s, i + 1, "start", <<>>, Append(fields, cur))
          [] mode = "closed" /\ c = LF -> [err |-> NoErr, record |-> Append(fields, cur)]
          [] mode = "closed" /\ c \notin {COMMA, LF} -> [err |-> ErrQuote, record |-> <<>>]

\* csv.NewReader(f).Read(): the first record of the file, or io.EOF
csvRead(data) ==
    LET s == skipEmptyLines(foldCRLF(data)) IN
    IF s = <<>> THEN [err |-> ErrEOF, record |-> <<>>]
    ELSE parseRecord(s, 1, "start", <<>>, <<>>)

-----------------------------------------------------------------------------
(* FileTokenStorage *)

\* The values the callers give TokenId: nil, the empty string, 123, "u7"
TokenIds == {Nil, <<"string", "">>, <<"int", "123">>, <<"string", "u7">>}
\* fmt.Sprint(store.TokenId)
Sprint(id) == IF id = Nil THEN "<nil>" ELSE id[2]

\* The values the callers give StoragePath; only "testtokens" is a directory
StoragePaths == {"", "testtokens", "fakeFolder"}
ExistingDirs == {"testtokens"}

\* path.Join(store.StoragePath, tokenIdStr+".csv")
FileName(path, idStr) == <<path, idStr>>
Files == {FileName(d, Sprint(id)) : d \in ExistingDirs, id \in TokenIds \ {Nil, <<"string", "">>}}

NoFile == [exists |-> FALSE, data |-> <<>>]
File(data) == [exists |-> TRUE, data |-> data]

ErrStoragePath(op) == <<"Cannot ", op, " token: ", "StoragePath not set", ".">>
ErrTokenId(op)     == <<"Cannot ", op, " token: ", "TokenId not set", ".">>
ErrNotExist        == <<"no such file or directory">>
ErrCreate          == <<"open: ", "permission denied">>
ErrWrite           == <<"write: ", "no space left on device">>
ErrFields          == <<"Cannot ", "restore", " token: ", "File does not contain all fields", ".">>

\* What can go wrong in the environment during FileTokenStorage.StoreToken
FileFaults == {"none", "create", "write"}

\* record := []string{token.AccessToken, token.RefreshToken, token.Expiry.String(), token.TokenType}
Record(token) == <<token.AccessToken, token.RefreshToken, TimeString(token.Expiry), token.TokenType>>

\* Mutant of FileTokenStorage.StoreToken: TokenId is checked before StoragePath
FileStoreToken_IdFirst(path, id, files, token, fault) ==
    IF id = Nil \/ Sprint(id) = "" THEN
        [fs |-> files, err |-> ErrTokenId("store"), calls |-> <<>>]
    ELSE IF path = "" THEN
        [fs |-> files, err |-> ErrStoragePath("store"), calls |-> <<>>]
    ELSE IF path \notin ExistingDirs \/ fault = "create" THEN
        [fs |-> files, err |-> ErrNotExist, calls |-> <<"os.Create">>]
    ELSE IF fault = "write" THEN
        [fs |-> [files EXCEPT ![FileName(path, Sprint(id))] = File(<<>>)], err |-> ErrWrite,
         calls |-> <<"os.Create", "csv.Write", "csv.Flush">>]
    ELSE
        [fs |-> [files EXCEPT ![FileName(path, Sprint(id))] = File(csvWrite(Record(token)))],
         err |-> NoErr, calls |-> <<"os.Create", "csv.Write", "csv.Flush">>]

\* FileTokenStorage.StoreToken: the files, the error and the calls made
FileStoreToken(path, id, files, token, fault) ==
    IF path = "" THEN
        [fs |-> files, err |-> ErrStoragePath("store"), calls |-> <<>>]
    ELSE IF id = Nil \/ Sprint(id) = "" THEN
        [fs |-> files, err |-> ErrTokenId("store"), calls |-> <<>>]
    ELSE LET filename == FileName(path, Sprint(id)) IN
        IF path \notin ExistingDirs THEN
            [fs |-> files, err |-> ErrNotExist, calls |-> <<"os.Create">>]
        ELSE IF fault = "create" THEN
            [fs |-> files, err |-> ErrCreate, calls |-> <<"os.Create">>]
        ELSE IF fault = "write" THEN
            \* os.Create has truncated the file, the buffered record never reaches it
            [fs |-> [files EXCEPT ![filename] = File(<<>>)], err |-> ErrWrite,
             calls |-> <<"os.Create", "csv.Write", "csv.Flush">>]
        ELSE
            [fs |-> [files EXCEPT ![filename] = File(csvWrite(Record(token)))], err |-> NoErr,
             calls |-> <<"os.Create", "csv.Write", "csv.Flush">>]

\* Mutant of FileTokenStorage.RestoreToken: the error of os.Open is dropped, and
\* a missing file reads as the zero token
FileRestoreToken_IgnoreOpen(path, id, files) ==
    IF path = "" THEN
        [token |-> Nil, err |-> ErrStoragePath("restore"), calls |-> <<>>]
    ELSE IF id = Nil \/ Sprint(id) = "" THEN
        [token |-> Nil, err |-> ErrTokenId("restore"), calls |-> <<>>]
    ELSE
        [token |-> Ptr(Token(<<>>, <<>>, ZeroTime, <<>>)), err |-> NoErr, calls |-> <<"os.Open">>]

\* Mutant of FileTokenStorage.RestoreToken: the error of time.Parse is dropped, and
\* an expiry that does not parse reads as the zero time
FileRestoreToken_IgnoreParse(path, id, files) ==
    IF path = "" THEN
        [token |-> Nil, err |-> ErrStoragePath("restore"), calls |-> <<>>]
    ELSE IF id = Nil \/ Sprint(id) = "" THEN
        [token |-> Nil, err |-> ErrTokenId("restore"), calls |-> <<>>]
    ELSE LET filename == FileName(path, Sprint(id)) IN
        IF path \notin ExistingDirs \/ ~files[filename].exists THEN
            [token |-> Nil, err |-> ErrNotExist, calls |-> <<"os.Open">>]
        ELSE LET r == csvRead(files[filename].data) IN
            IF r.err # NoErr THEN
                [token |-> Nil, err |-> r.err, calls |-> <<"os.Open", "csv.Read">>]
            ELSE IF Len(r.record) < 4 THEN
                [token |-> Nil, err |-> ErrFields, calls |-> <<"os.Open", "csv.Read">>]
            ELSE
                [token |-> Ptr(Token(r.record[1], r.record[2], ParseTime(r.record[3]).t, r.record[4])),
                 err |-> NoErr, calls |-> <<"os.Open", "csv.Read">>]

\* FileTokenStorage.RestoreToken: the token, the error and the calls made
FileRestoreToken(path, id, files) ==
    IF path = "" THEN
        [token |-> Nil, err |-> ErrStoragePath("restore"), calls |-> <<>>]
    ELSE IF id = Nil \/ Sprint(id) = "" THEN
        [token |-> Nil, err |-> ErrTokenId("restore"), calls |-> <<>>]
    ELSE LET filename == FileName(path, Sprint(id)) IN
        IF path \notin ExistingDirs \/ ~files[filename].exists THEN
            [token |-> Nil, err |-> ErrNotExist, calls |-> <<"os.Open">>]
        ELSE LET r == csvRead(files[filename].data) IN
            IF r.err # NoErr THEN
                [token |-> Nil, err |-> r.err, calls |-> <<"os.Open", "csv.Read">>]
            ELSE IF Len(r.record) < 4 THEN
                [token |-> Nil, err |-> ErrFields, calls |-> <<"os.Open", "csv.Read">>]
            ELSE LET e == ParseTime(r.record[3]) IN
                IF e.err # NoErr THEN
                    [token |-> Nil, err |-> e.err, calls |-> <<"os.Open", "csv.Read">>]
                ELSE
                    [token |-> Ptr(Token(r.record[1], r.record[2], e.t, r.record[4])),
                     err |-> NoErr, calls |-> <<"os.Open", "csv.Read">>]

\* FileTokenStorage.DeleteToken: the files, the error and the calls made
FileDeleteToken(path, id, files) ==
    IF path = "" THEN
        [fs |-> files, err |-> ErrStoragePath("delete"), calls |-> <<>>]
    ELSE IF id = Nil \/ Sprint(id) = "" THEN
        [fs |-> files, err |-> ErrTokenId("delete"), calls |-> <<>>]
    ELSE LET filename == FileName(path, Sprint(id)) IN
        IF path \notin ExistingDirs \/ ~files[filename].exists THEN
            [fs |-> files, err |-> ErrNotExist, calls |-> <<"os.Remove">>]
        ELSE
            [fs |-> [files EXCEPT ![filename] = NoFile], err |-> NoErr, calls |-> <<"os.Remove">>]

-----------------------------------------------------------------------------
(* SQLTokenStorage *)

RowIds == 1 .. MaxRowId
\* The values store.ID takes: nil, or an int64 the caller or StoreToken set
IDs == {Nil} \cup {Ptr(n) : n \in RowIds}

\* A DATETIME column keeps the instant and the offset of a time.Time
DbTime(t) == [inst |-> t.inst, off |-> ZoneOffset(t.zone)]
ScanTime(d) == Time(d.inst, CHOOSE z \in Zones : ZoneOffset(z) = d.off, FALSE)

\* The column values of the INSERT statements
Row(token) ==
    [access_token |-> token.AccessToken, refresh_token |-> token.RefreshToken,
     expiry |-> DbTime(token.Expiry), token_type |-> token.TokenType]

RowCount(table) == Cardinality({n \in RowIds : table[n] # Nil})

\* The id an INSERT without id generates (INTEGER PRIMARY KEY): the largest id in use + 1
NextRowId(table) ==
    IF \A n \in RowIds : table[n] = Nil THEN 1
    ELSE (CHOOSE n \in RowIds : table[n] # Nil /\ \A m \in RowIds : table[m] # Nil => m <= n) + 1

ErrExec       == <<"sql: ", "statement failed">>
ErrLastInsert == <<"sql: ", "LastInsertId is not supported by this driver">>
ErrNoRows     == <<"sql: ", "no rows in result set">>
ErrRestoreID  == <<"SQLTokenStorage.RestoreToken", " requires the SQLTokenStorage.TokenID to be set.">>
ErrDeleteID   == <<"SQLTokenStorage.DeleteToken", " requires the SQLTokenStorage.TokenID to be set.">>

\* What can go wrong in the environment during SQLTokenStorage.StoreToken
SQLFaults == {"none", "exec", "lastid"}

\* Mutant of SQLTokenStorage.StoreToken: store.ID is not looked at, every call INSERTs
SQLStoreToken_AlwaysInsert(id, table, token, fault) ==
    IF fault = "exec" THEN
        [rows |-> table, ID |-> id, err |-> ErrExec, calls |-> <<"INSERT">>]
    ELSE
        [rows |-> [n \in RowIds |-> IF n = NextRowId(table) THEN Ptr(Row(token)) ELSE table[n]],
         ID |-> IF NextRowId(table) \in RowIds THEN Ptr(NextRowId(table)) ELSE id,
         err |-> NoErr, calls |-> <<"INSERT", "LastInsertId">>]

\* SQLTokenStorage.StoreToken: the table, store.ID, the error and the calls made
SQLStoreToken(id, table, token, fault) ==
    IF id = Nil THEN
        IF fault = "exec" THEN
            [rows |-> table, ID |-> id, err |-> ErrExec, calls |-> <<"INSERT">>]
        ELSE LET n == NextRowId(table)
                 inserted == [table EXCEPT ![n] = Ptr(Row(token))] IN
            IF fault = "lastid" THEN
                [rows |-> inserted, ID |-> id, err |-> ErrLastInsert,
                 calls |-> <<"INSERT", "LastInsertId">>]
            ELSE
                [rows |-> inserted, ID |-> Ptr(n), err |-> NoErr,
                 calls |-> <<"INSERT", "LastInsertId">>]
    ELSE
        IF fault = "exec" THEN
            [rows |-> table, ID |-> id, err |-> ErrExec, calls |-> <<"INSERT OR REPLACE">>]
        ELSE
            [rows |-> [table EXCEPT ![Deref(id)] = Ptr(Row(token))], ID |-> id, err |-> NoErr,
             calls |-> <<"INSERT OR REPLACE">>]

\* SQLTokenStorage.RestoreToken: the token, the error and the calls made
SQLRestoreToken(id, table) ==
    IF id = Nil THEN
        [token |-> Nil, err |-> ErrRestoreID, calls |-> <<>>]
    ELSE IF table[Deref(id)] = Nil THEN
        [token |-> Nil, err |-> ErrNoRows, calls |-> <<"SELECT">>]
    ELSE LET r == Deref(table[Deref(id)]) IN
        [token |-> Ptr(Token(r.access_token, r.refresh_token, ScanTime(r.expiry), r.token_type)),
         err |-> NoErr, calls |-> <<"SELECT">>]

\* Mutant of SQLTokenStorage.DeleteToken: store.ID is not checked, the DELETE runs
\* with a NULL id and deletes nothing
SQLDeleteToken_NoCheck(id, table, fault) ==
    IF fault = "exec" THEN
        [rows |-> table, err |-> ErrExec, calls |-> <<"DELETE">>]
    ELSE
        [rows |-> [n \in RowIds |-> IF id # Nil /\ Ptr(n) = id THEN Nil ELSE table[n]],
         err |-> NoErr, calls |-> <<"DELETE">>]

\* SQLTokenStorage.DeleteToken: the table, the error and the calls made
SQLDeleteToken(id, table, fault) ==
    IF id = Nil THEN
        [rows |-> table, err |-> ErrDeleteID, calls |-> <<>>]
    ELSE IF fault = "exec" THEN
        [rows |-> table, err |-> ErrExec, calls |-> <<"DELETE">>]
    ELSE
        [rows |-> [table EXCEPT ![Deref(id)] = Nil], err |-> NoErr, calls |-> <<"DELETE">>]

-----------------------------------------------------------------------------
(* The state after construction, and the calls on the two backends.        *)
(* The environment can fail a StoreToken (os.Create, the write, Exec,      *)
(* LastInsertId) and a DELETE; RestoreToken and os.Remove fail only for    *)
(* what the storage holds (a missing file or row, unreadable contents).    *)

Call(op, arg, err, ret, calls) == [op |-> op, arg |-> arg, err |-> err, ret |-> ret, calls |-> calls]

NoSource == [t |-> Nil, inner |-> Nil]

\* The goroutines that call the file backend: two that store, one that restores
Storers == {"a", "b"}
Restorer == "r"
NoCalls == [p \in Storers \cup {Restorer} |-> Nil]

\* FileTokenStorage{} and SQLTokenStorage{DB: db} over an empty directory and an empty table
Init ==
    /\ kind \in {"file", "sql"}
    /\ StoragePath = ""
    /\ TokenId = Nil
    /\ fs = [f \in Files |-> NoFile]
    /\ ID = Nil
    /\ rows = [n \in RowIds |-> Nil]
    /\ now = 0
    /\ src = NoSource
    /\ generated = FALSE
    /\ lastGood = Nil
    /\ last = Call("new", Nil, NoErr, Nil, <<>>)
    /\ inflight = NoCalls

\* fileStore.StoragePath = p
SetStoragePath(p) ==
    /\ kind = "file"
    /\ p # StoragePath
    /\ StoragePath' = p
    /\ last' = Call("set", Nil, NoErr, Nil, <<>>)
    /\ UNCHANGED <<inflight, kind, TokenId, fs, ID, rows, now, src, lastGood, generated>>

\* fileStore.TokenId = id
SetTokenId(id) ==
    /\ kind = "file"
    /\ id # TokenId
    /\ TokenId' = id
    /\ last' = Call("set", Nil, NoErr, Nil, <<>>)
    /\ UNCHANGED <<inflight, kind, StoragePath, fs, ID, rows, now, src, lastGood, generated>>

FileStore(token, fault) ==
    /\ kind = "file"
    /\ LET r == FileStoreToken(StoragePath, TokenId, fs, token, fault) IN
        /\ fs' = r.fs
        /\ last' = Call("StoreToken", Ptr(token), r.err, Nil, r.calls)
    /\ UNCHANGED <<inflight, kind, StoragePath, TokenId, ID, rows, now, src, lastGood, generated>>

FileRestore ==
    /\ kind = "file"
    /\ LET r == FileRestoreToken(StoragePath, TokenId, fs) IN
        last' = Call("RestoreToken", Nil, r.err, r.token, r.calls)
    /\ UNCHANGED <<inflight, kind, StoragePath, TokenId, fs, ID, rows, now, src, lastGood, generated>>

FileDelete ==
    /\ kind = "file"
    /\ LET r == FileDeleteToken(StoragePath, TokenId, fs) IN
        /\ fs' = r.fs
        /\ last' = Call("DeleteToken", Nil, r.err, Nil, r.calls)
    /\ UNCHANGED <<inflight, kind, StoragePath, TokenId, ID, rows, now, src, lastGood, generated>>

\* sqlStore = SQLTokenStorage{DB: db, ID: id}, or sqlStore.ID = id
SetID(id) ==
    /\ kind = "sql"
    /\ id # ID
    /\ ID' = id
    /\ generated' = FALSE
    /\ last' = Call("set", Nil, NoErr, Nil, <<>>)
    /\ UNCHANGED <<inflight, kind, StoragePath, TokenId, fs, rows, now, src, lastGood>>

\* An INSERT needs an unused row identifier within the bound
CanInsert(id, table) == id = Nil => NextRowId(table) <= MaxRowId

SQLStore(token, fault) ==
    /\ kind = "sql"
    /\ CanInsert(ID, rows)
    /\ ID # Nil => fault # "lastid"
    /\ LET r == SQLStoreToken(ID, rows, token, fault) IN
        /\ rows' = r.rows
        /\ ID' = r.ID
        /\ generated' = (generated \/ (ID = Nil /\ r.ID # Nil))
        /\ last' = Call("StoreToken", Ptr(token), r.err, Nil, r.calls)
    /\ UNCHANGED <<inflight, kind, StoragePath, TokenId, fs, now, src, lastGood>>

SQLRestore ==
    /\ kind = "sql"
    /\ LET r == SQLRestoreToken(ID, rows) IN
        last' = Call("RestoreToken", Nil, r.err, r.token, r.calls)
    /\ UNCHANGED <<inflight, kind, StoragePath, TokenId, fs, ID, rows, now, src, lastGood, generated>>

SQLDelete(fault) ==
    /\ kind = "sql"
    /\ LET r == SQLDeleteToken(ID, rows, fault) IN
        /\ rows' = r.rows
        /\ last' = Call("DeleteToken", Nil, r.err, Nil, r.calls)
    /\ UNCHANGED <<inflight, kind, StoragePath, TokenId, fs, ID, now, src, lastGood, generated>>

Next ==
    \/ \E p \in StoragePaths : SetStoragePath(p)
    \/ \E id \in TokenIds : SetTokenId(id)
    \/ \E token \in Tokens, fault \in FileFaults : FileStore(token, fault)
    \/ FileRestore
    \/ FileDelete
    \/ \E id \in IDs : SetID(id)
    \/ \E token \in Tokens, fault \in SQLFaults : SQLStore(token, fault)
    \/ SQLRestore
    \/ \E fault \in {"none", "exec"} : SQLDelete(fault)

Spec == Init /\ [][Next]_vars

-----------------------------------------------------------------------------
(* Config and TokenStorageSource over the storage backend c.Storage         *)

\* c.Storage.StoreToken(token): the call through the TokenStorage interface
StorageStoreToken(token, fault) ==
    IF kind = "file" THEN
        LET r == FileStoreToken(StoragePath, TokenId, fs, token, fault) IN
        [fs |-> r.fs, rows |-> rows, ID |-> ID, err |-> r.err, calls |-> r.calls]
    ELSE
        LET r == SQLStoreToken(ID, rows, token, fault) IN
        [fs |-> fs, rows |-> r.rows, ID |-> r.ID, err |-> r.err, calls |-> r.calls]

\* c.Storage.RestoreToken() over the storage (files, table)
RestoreIn(files, id, table) ==
    IF kind = "file" THEN FileRestoreToken(StoragePath, TokenId, files)
    ELSE SQLRestoreToken(id, table)

StorageFaults == IF kind = "file" THEN FileFaults ELSE SQLFaults

\* Tokens the OAuth2 server hands out (oauth2 rejects a response without access_token)
UpstreamTokens == {tokAbc, tokNew, tokQuote}
\* The outcome of a request to the token endpoint: nil (an error) or a token
Upstream == {Nil} \cup {Ptr(t) : t \in UpstreamTokens}

ErrExchange == <<"oauth2: ", "cannot fetch token">>

\* oauth2's expiryDelta, in ticks of the clock
expiryDelta == 1

\* oauth2.Token.Valid: t != nil && t.AccessToken != "" && !t.expired()
Valid(t, clock) ==
    /\ t # Nil
    /\ Deref(t).AccessToken # <<>>
    /\ ~(~IsZero(Deref(t).Expiry) /\ Deref(t).Expiry.inst - expiryDelta < clock)

\* Mutant of Config.Exchange: the error of StoreToken is dropped
ConfigExchange_IgnoreStore(up, fault) ==
    IF up = Nil THEN
        [fs |-> fs, rows |-> rows, ID |-> ID, token |-> Nil, err |-> ErrExchange,
         calls |-> <<"oauth2.Exchange">>]
    ELSE LET r == StorageStoreToken(Deref(up), fault) IN
        [fs |-> r.fs, rows |-> r.rows, ID |-> r.ID, token |-> up, err |-> NoErr,
         calls |-> <<"oauth2.Exchange", "StoreToken">> \o r.calls]

\* Config.Exchange: the storage, the token, the error and the calls made
ConfigExchange(up, fault) ==
    IF up = Nil THEN
        [fs |-> fs, rows |-> rows, ID |-> ID, token |-> Nil, err |-> ErrExchange,
         calls |-> <<"oauth2.Exchange">>]
    ELSE LET r == StorageStoreToken(Deref(up), fault) IN
        [fs |-> r.fs, rows |-> r.rows, ID |-> r.ID,
         token |-> IF r.err # NoErr THEN Nil ELSE up, err |-> r.err,
         calls |-> <<"oauth2.Exchange", "StoreToken">> \o r.calls]

\* Config.TokenSource(ctx, t): oauth2.ReuseTokenSource(t, tts), where tts.source is
\* c.Config.TokenSource(ctx, t), itself a reuse source holding t over the refresher
ConfigTokenSource(t) == [t |-> t, inner |-> t]

\* t.source.Token() of the interceptor: the held token while it is valid, else a refresh
SourceToken(held, clock, up) ==
    IF Valid(held, clock) THEN
        [token |-> held, err |-> NoErr, held |-> held, calls |-> <<"source.Token">>]
    ELSE IF up = Nil THEN
        [token |-> Nil, err |-> ErrExchange, held |-> held, calls |-> <<"source.Token", "refresh">>]
    ELSE
        [token |-> up, err |-> NoErr, held |-> up, calls |-> <<"source.Token", "refresh">>]

\* Mutant of TokenStorageSource.Token: StoreToken is called before the error of the
\* source is looked at, with the zero token when the source failed
TokenStorageSourceToken_StoreFirst(held, clock, up, fault) ==
    LET s == SourceToken(held, clock, up)
        r == StorageStoreToken(IF s.err # NoErr THEN Token(<<>>, <<>>, ZeroTime, <<>>)
                               ELSE Deref(s.token), fault) IN
    [inner |-> s.held, fs |-> r.fs, rows |-> r.rows, ID |-> r.ID,
     token |-> IF s.err # NoErr \/ r.err # NoErr THEN Nil ELSE s.token,
     err |-> IF s.err # NoErr THEN s.err ELSE r.err,
     calls |-> s.calls \o <<"StoreToken">> \o r.calls]

\* TokenStorageSource.Token: the source, the storage, the token, the error and the calls made
TokenStorageSourceToken(held, clock, up, fault) ==
    LET s == SourceToken(held, clock, up) IN
    IF s.err # NoErr THEN
        [inner |-> s.held, fs |-> fs, rows |-> rows, ID |-> ID, token |-> Nil, err |-> s.err,
         calls |-> s.calls]
    ELSE LET r == StorageStoreToken(Deref(s.token), fault) IN
        [inner |-> s.held, fs |-> r.fs, rows |-> r.rows, ID |-> r.ID,
         token |-> IF r.err # NoErr THEN Nil ELSE s.token, err |-> r.err,
         calls |-> s.calls \o <<"StoreToken">> \o r.calls]

\* Mutant of Config.TokenSource: the interceptor is returned without the reuse wrapper
Reusable_Never(t, clock) == FALSE

\* reuseTokenSource.Token of the source Config.TokenSource returns: s.t.Valid()
Reusable(t, clock) == Valid(t, clock)

\* A correctly configured backend: fileStore in testtokens under 123, or a fresh sqlStore
InitCfg ==
    /\ kind \in {"file", "sql"}
    /\ StoragePath = "testtokens"
    /\ TokenId = <<"int", "123">>
    /\ fs = [f \in Files |-> NoFile]
    /\ ID = Nil
    /\ rows = [n \in RowIds |-> Nil]
    /\ now = 0
    /\ src = NoSource
    /\ generated = FALSE
    /\ lastGood = Nil
    /\ last = Call("new", Nil, NoErr, Nil, <<>>)
    /\ inflight = NoCalls

\* token, err := config.Exchange(ctx, code)
Exchange(up, fault) ==
    /\ kind = "sql" => CanInsert(ID, rows)
    /\ LET r == ConfigExchange(up, fault) IN
        /\ fs' = r.fs
        /\ rows' = r.rows
        /\ ID' = r.ID
        /\ generated' = (generated \/ (ID = Nil /\ r.ID # Nil))
        /\ last' = Call("Exchange", Nil, r.err, r.token, r.calls)
    /\ lastGood' = Nil
    /\ UNCHANGED <<inflight, kind, StoragePath, TokenId, now, src>>

\* source := config.TokenSource(ctx, t)
NewTokenSource(t) ==
    /\ src' = ConfigTokenSource(t)
    /\ last' = Call("TokenSource", t, NoErr, Nil, <<>>)
    /\ UNCHANGED <<inflight, kind, StoragePath, TokenId, fs, ID, rows, now, generated, lastGood>>

\* The interceptor's Token() called on its own
InterceptorToken(up, fault) ==
    /\ kind = "sql" => CanInsert(ID, rows)
    /\ LET r == TokenStorageSourceToken(src.inner, now, up, fault) IN
        /\ src' = [src EXCEPT !.inner = r.inner]
        /\ fs' = r.fs
        /\ rows' = r.rows
        /\ ID' = r.ID
        /\ generated' = (generated \/ (ID = Nil /\ r.ID # Nil))
        /\ lastGood' = IF r.err = NoErr THEN r.token ELSE lastGood
        /\ last' = Call("Token", Nil, r.err, r.token, r.calls)
    /\ UNCHANGED <<inflight, kind, StoragePath, TokenId, now>>

\* Token() of the source Config.TokenSource returned
ReuseToken(up, fault) ==
    /\ kind = "sql" => CanInsert(ID, rows)
    /\ IF Reusable(src.t, now) THEN
            /\ last' = Call("ReuseToken", Nil, NoErr, src.t, <<>>)
            /\ UNCHANGED <<src, fs, rows, ID, generated, lastGood>>
       ELSE LET r == TokenStorageSourceToken(src.inner, now, up, fault) IN
            /\ src' = [t |-> IF r.err = NoErr THEN r.token ELSE src.t, inner |-> r.inner]
            /\ fs' = r.fs
            /\ rows' = r.rows
            /\ ID' = r.ID
            /\ generated' = (generated \/ (ID = Nil /\ r.ID # Nil))
            /\ lastGood' = IF r.err = NoErr THEN r.token ELSE lastGood
            /\ last' = Call("ReuseToken", Nil, r.err, r.token, <<"Token">> \o r.calls)
    /\ UNCHANGED <<inflight, kind, StoragePath, TokenId, now>>

\* Time passes
Tick ==
    /\ now < MaxNow
    /\ now' = now + 1
    /\ last' = Call("tick", Nil, NoErr, Nil, <<>>)
    /\ UNCHANGED <<inflight, kind, StoragePath, TokenId, fs, ID, rows, src, generated, lastGood>>

NextCfg ==
    \/ \E up \in Upstream, fault \in StorageFaults : Exchange(up, fault)
    \/ \E t \in Upstream : NewTokenSource(t)
    \/ \E up \in Upstream, fault \in StorageFaults : InterceptorToken(up, fault)
    \/ \E up \in Upstream, fault \in StorageFaults : ReuseToken(up, fault)
    \/ Tick

SpecCfg == InitCfg /\ [][NextCfg]_vars

-----------------------------------------------------------------------------
(* FileTokenStorage under concurrent callers: the backends take no lock, so  *)
(* the system calls of StoreToken and RestoreToken of different goroutines   *)
(* interleave. A string is a sequence of atoms and a file offset counts them. *)

\* The tokens the concurrent callers store; their records differ in length
ConcTokens == {tokAbc, tokQuote, tokEmpty}

\* file.Write at the descriptor's offset 0 (os.Create opens without O_APPEND):
\* the record replaces the first Len(rec) atoms, what lies beyond them stays
Overlay(data, rec) == rec \o SubSeq(data, Len(rec) + 1, Len(data))

\* fileStore in testtokens under 123, after a StoreToken(abc) made alone
InitConc ==
    /\ kind = "file"
    /\ StoragePath = "testtokens"
    /\ TokenId = <<"int", "123">>
    /\ fs = [f \in Files |-> IF f = FileName("testtokens", "123")
                             THEN File(csvWrite(Record(tokAbc))) ELSE NoFile]
    /\ ID = Nil
    /\ rows = [n \in RowIds |-> Nil]
    /\ now = 0
    /\ src = NoSource
    /\ generated = FALSE
    /\ lastGood = Nil
    /\ last = Call("StoreToken", Ptr(tokAbc), NoErr, Nil, <<"os.Create", "csv.Write", "csv.Flush">>)
    /\ inflight = NoCalls

\* StoreToken up to os.Create: the checks pass, the file is created or truncated
StoreTokenCreate(p, token) ==
    /\ inflight[p] = Nil
    /\ StoragePath \in ExistingDirs /\ TokenId # Nil /\ Sprint(TokenId) # ""
    /\ fs' = [fs EXCEPT ![FileName(StoragePath, Sprint(TokenId))] = File(<<>>)]
    /\ inflight' = [inflight EXCEPT ![p] = Ptr(Record(token))]
    /\ UNCHANGED <<kind, StoragePath, TokenId, ID, rows, now, src, generated, lastGood, last>>

\* StoreToken from w.Write to the return: Flush writes the buffered record in one write
StoreTokenWrite(p, token) ==
    /\ inflight[p] = Ptr(Record(token))
    /\ LET filename == FileName(StoragePath, Sprint(TokenId)) IN
        fs' = [fs EXCEPT ![filename] = File(Overlay(fs[filename].data, csvWrite(Record(token))))]
    /\ inflight' = [inflight EXCEPT ![p] = Nil]
    /\ last' = Call("StoreToken", Ptr(token), NoErr, Nil, <<"os.Create", "csv.Write", "csv.Flush">>)
    /\ UNCHANGED <<kind, StoragePath, TokenId, ID, rows, now, src, generated, lastGood>>

\* RestoreToken up to os.Open: the checks pass and the file is there
RestoreTokenOpen ==
    /\ inflight[Restorer] = Nil
    /\ StoragePath \in ExistingDirs /\ TokenId # Nil /\ Sprint(TokenId) # ""
    /\ fs[FileName(StoragePath, Sprint(TokenId))].exists
    /\ inflight' = [inflight EXCEPT ![Restorer] = Ptr("os.Open")]
    /\ UNCHANGED <<kind, StoragePath, TokenId, fs, ID, rows, now, src, generated, lastGood, last>>

\* RestoreToken from reader.Read to the return: the record is read from the file as it is now
RestoreTokenRead ==
    /\ inflight[Restorer] # Nil
    /\ LET r == FileRestoreToken(StoragePath, TokenId, fs) IN
        last' = Call("RestoreToken", Nil, r.err, r.token, r.calls)
    /\ inflight' = [inflight EXCEPT ![Restorer] = Nil]
    /\ UNCHANGED <<kind, StoragePath, TokenId, fs, ID, rows, now, src, generated, lastGood>>

NextConc ==
    \/ \E p \in Storers, token \in ConcTokens : StoreTokenCreate(p, token)
    \/ \E p \in Storers, token \in ConcTokens : StoreTokenWrite(p, token)
    \/ RestoreTokenOpen
    \/ RestoreTokenRead

SpecConc == InitConc /\ [][NextConc]_vars

-----------------------------------------------------------------------------
(* FileTokenStorage over a file it did not write itself: RestoreToken reads  *)
(* whatever <TokenId>.csv holds, be it left by another program, an editor,   *)
(* an interrupted write or another version of the package.                   *)

\* A line of text: the fields as they are, separated by commas
RECURSIVE Line(_)
Line(fields) ==
    IF fields = <<>> THEN <<LF>>
    ELSE IF Len(fields) = 1 THEN fields[1] \o <<LF>>
    ELSE fields[1] \o <<COMMA>> \o Line(Tail(fields))

\* First records with fewer than the four fields
FewFields ==
    { Line(<<<<"abc">>>>),
      Line(<<<<"abc">>, <<"def">>>>),
      Line(<<<<"abc">>, <<"def">>, <<"bearer">>>>) }

\* First records of four fields whose third is not a timestamp of the layout
BadExpiry ==
    { Line(<<<<"abc">>, <<"def">>, <<"tomorrow">>, <<"bearer">>>>),
      Line(<<<<"abc">>, <<"def">>, <<>>, <<"bearer">>>>),
      Line(<<<<"abc">>, <<"def">>, <<DateText[3], SP, ZoneOffset("UTC")>>, <<"bearer">>>>),
      Line(<<<<"abc">>, <<"def">>, TimeString(Time(2, "UTC", TRUE)), <<"bearer">>>>) }

\* First records RestoreToken accepts: the four fields, and a fifth that it ignores
GoodRecords ==
    { Line(<<<<"abc">>, <<"def">>, TimeString(Time(2, "UTC", FALSE)), <<"bearer">>>>),
      Line(<<<<"abc">>, <<"def">>, TimeString(Time(2, "UTC", FALSE)), <<"bearer">>, <<"more">>>>) }

\* What the file can hold when RestoreToken comes to it
FileContents == FewFields \cup BadExpiry \cup GoodRecords \cup {<<>>, <<"a", DQ, "b", LF>>}

\* fileStore in testtokens under 123, the file as someone left it
InitRead ==
    /\ kind = "file"
    /\ StoragePath = "testtokens"
    /\ TokenId = <<"int", "123">>
    /\ \E data \in FileContents :
        fs = [f \in Files |-> IF f = FileName("testtokens", "123") THEN File(data) ELSE NoFile]
    /\ ID = Nil
    /\ rows = [n \in RowIds |-> Nil]
    /\ now = 0
    /\ src = NoSource
    /\ generated = FALSE
    /\ lastGood = Nil
    /\ last = Call("new", Nil, NoErr, Nil, <<>>)
    /\ inflight = NoCalls

NextRead ==
    \/ \E p \in StoragePaths : SetStoragePath(p)
    \/ \E id \in TokenIds : SetTokenId(id)
    \/ \E token \in Tokens, fault \in FileFaults : FileStore(token, fault)
    \/ FileRestore
    \/ FileDelete

SpecRead == InitRead /\ [][NextRead]_vars

-----------------------------------------------------------------------------
(* Properties *)

StorageOps == {"StoreToken", "RestoreToken", "DeleteToken"}

\* The representation StoreToken gives the token is what the storage (files, table)
\* holds under the configured identifier
Holds(files, id, table, token) ==
    IF kind = "file" THEN
        /\ FileName(StoragePath, Sprint(TokenId)) \in Files
        /\ files[FileName(StoragePath, Sprint(TokenId))] = File(csvWrite(Record(token)))
    ELSE
        /\ id # Nil
        /\ table[Deref(id)] = Ptr(Row(token))

StorageHolds(token) == Holds(fs, ID, rows, token)

\* A record is held under the configured identifier
HasRecord ==
    IF kind = "file" THEN
        /\ FileName(StoragePath, Sprint(TokenId)) \in Files
        /\ fs[FileName(StoragePath, Sprint(TokenId))].exists
        /\ fs[FileName(StoragePath, Sprint(TokenId))].data # <<>>
    ELSE
        /\ ID # Nil
        /\ rows[Deref(ID)] # Nil

\* The backend is configured as RestoreToken needs it
Configured ==
    IF kind = "file" THEN
        StoragePath \in ExistingDirs /\ TokenId # Nil /\ Sprint(TokenId) # ""
    ELSE ID # Nil

\* How the libraries report that there is nothing to read: os.Open (ENOENT),
\* csv.Reader.Read (io.EOF), sql.Row.Scan (sql.ErrNoRows)
NotFoundErrors == {ErrNotExist, ErrEOF, ErrNoRows}

\* C1 (as claimed): a successful StoreToken immediately followed by RestoreToken on the
\* same backend returns, without error, a token equal to the stored one in all four fields.
C1_RoundTrip ==
    [][(last.op = "StoreToken" /\ last.err = NoErr /\ last'.op = "RestoreToken")
        => /\ last'.err = NoErr
           /\ last'.ret # Nil
           /\ TokenEq(Deref(last'.ret), Deref(last.arg))]_vars

\* C2 (as claimed): after a successful StoreToken over an earlier record of the same
\* identifier, the storage holds exactly the one new record and RestoreToken returns
\* the token just passed, nothing of the earlier record.
C2_Overwrite ==
    [][(last'.op = "StoreToken" /\ last'.err = NoErr /\ HasRecord)
        => /\ Holds(fs', ID', rows', Deref(last'.arg))
           /\ RestoreIn(fs', ID', rows').err = NoErr
           /\ RestoreIn(fs', ID', rows').token # Nil
           /\ TokenEq(Deref(RestoreIn(fs', ID', rows').token), Deref(last'.arg))]_vars

\* C3: on the file backend StoreToken, RestoreToken and DeleteToken fail with
\* "StoragePath not set" when StoragePath is empty (whatever TokenId is) and with
\* "TokenId not set" when StoragePath is set and TokenId is nil or prints as "";
\* in both cases no file system call is made and no file changes.
C3_ConfigErrors ==
    [][(kind = "file" /\ last'.op \in StorageOps)
        => /\ StoragePath = ""
                => /\ Contains(last'.err, "StoragePath not set")
                   /\ ~Contains(last'.err, "TokenId not set")
                   /\ last'.calls = <<>> /\ last'.ret = Nil /\ fs' = fs
           /\ (StoragePath # "" /\ (TokenId = Nil \/ Sprint(TokenId) = ""))
                => /\ Contains(last'.err, "TokenId not set")
                   /\ ~Contains(last'.err, "StoragePath not set")
                   /\ last'.calls = <<>> /\ last'.ret = Nil /\ fs' = fs]_vars

\* C3 witness: StoreToken has just failed with "TokenId not set" for TokenId "" while
\* a token file exists in the directory
C3_Witness ==
    /\ kind = "file" /\ last.op = "StoreToken"
    /\ StoragePath = "testtokens" /\ TokenId = <<"string", "">>
    /\ Contains(last.err, "TokenId not set")
    /\ \E f \in Files : fs[f].exists

\* C4 (as claimed): a successful StoreToken with store.ID nil inserts one row and sets
\* store.ID to its identifier; every later StoreToken of that instance leaves store.ID
\* alone and does not make the number of rows grow.
C4_NoGrowth ==
    [][(kind = "sql" /\ last'.op = "StoreToken")
        => /\ (ID = Nil /\ last'.err = NoErr)
                => /\ ID' # Nil
                   /\ rows[Deref(ID')] = Nil
                   /\ rows' = [rows EXCEPT ![Deref(ID')] = Ptr(Row(Deref(last'.arg)))]
           /\ generated
                => /\ ID' = ID
                   /\ RowCount(rows') <= RowCount(rows)]_vars

\* C4 (amended): ... every later StoreToken of that instance leaves store.ID alone and
\* upserts the row with that identifier: the number of rows does not grow while that
\* row exists, and grows by the one re-inserted row when it had been deleted.
C4_Upsert ==
    [][(kind = "sql" /\ last'.op = "StoreToken")
        => /\ (ID = Nil /\ last'.err = NoErr)
                => /\ ID' # Nil
                   /\ rows[Deref(ID')] = Nil
                   /\ rows' = [rows EXCEPT ![Deref(ID')] = Ptr(Row(Deref(last'.arg)))]
           /\ generated
                => /\ ID' = ID
                   /\ rows[Deref(ID)] # Nil => RowCount(rows') <= RowCount(rows)
                   /\ rows[Deref(ID)] = Nil => RowCount(rows') <= RowCount(rows) + 1
                   /\ last'.err = NoErr => rows'[Deref(ID)] = Ptr(Row(Deref(last'.arg)))
                   /\ last'.err # NoErr => rows' = rows]_vars

\* C4 witness: a StoreToken has replaced the row whose identifier an earlier StoreToken
\* of the instance generated, next to another instance's row
C4_Witness ==
    /\ kind = "sql" /\ generated
    /\ last.op = "StoreToken" /\ last.err = NoErr /\ last.calls = <<"INSERT OR REPLACE">>
    /\ rows[Deref(ID)] = Ptr(Row(Deref(last.arg)))
    /\ RowCount(rows) = 2

\* C5: on the relational backend RestoreToken and DeleteToken with store.ID nil fail
\* with the configuration error, run no statement and leave the table and store.ID alone.
C5_NilID ==
    [][(kind = "sql" /\ ID = Nil /\ last'.op \in {"RestoreToken", "DeleteToken"})
        => /\ last'.err = (IF last'.op = "RestoreToken" THEN ErrRestoreID ELSE ErrDeleteID)
           /\ last'.ret = Nil
           /\ last'.calls = <<>>
           /\ rows' = rows
           /\ ID' = ID]_vars

\* C5 witness: DeleteToken has just failed for store.ID nil while the table has a row
C5_Witness ==
    /\ kind = "sql" /\ ID = Nil
    /\ last.op = "DeleteToken" /\ last.err = ErrDeleteID
    /\ RowCount(rows) > 0

StorageUnchanged == fs' = fs /\ rows' = rows /\ ID' = ID

\* C7: Config.Exchange returns a token only after StoreToken succeeded with it: a failed
\* exchange calls no StoreToken and returns an error and no token; a failed StoreToken
\* returns its error and no token; a returned token is what the storage then holds.
C7_Exchange ==
    [][last'.op = "Exchange"
        => /\ last'.err = ErrExchange
                => /\ ~Contains(last'.calls, "StoreToken")
                   /\ last'.ret = Nil
                   /\ StorageUnchanged
           /\ last'.err # NoErr => last'.ret = Nil
           /\ last'.ret # Nil
                => /\ last'.err = NoErr
                   /\ Contains(last'.calls, "StoreToken")
                   /\ Holds(fs', ID', rows', Deref(last'.ret))]_vars

\* C7 witness: Exchange has just failed in StoreToken, after a successful exchange
C7_Witness ==
    /\ last.op = "Exchange"
    /\ Contains(last.calls, "StoreToken")
    /\ last.err # NoErr /\ last.ret = Nil

\* C8: when the underlying source fails, TokenStorageSource.Token returns that error
\* and no token, calls no StoreToken, and leaves the storage as it was: RestoreToken
\* returns what it returned before.
C8_SourceError ==
    [][(last'.op \in {"Token", "ReuseToken"} /\ last'.err = ErrExchange)
        => /\ last'.ret = Nil
           /\ ~Contains(last'.calls, "StoreToken")
           /\ StorageUnchanged
           /\ RestoreIn(fs', ID', rows') = RestoreIn(fs, ID, rows)]_vars

\* C8 witness: Token has just failed in the underlying source while the storage holds
\* the token of the latest successful call
C8_Witness ==
    /\ last.op = "Token" /\ last.err = ErrExchange
    /\ lastGood # Nil
    /\ StorageHolds(Deref(lastGood))

\* C9 (as claimed): after any sequence of Token calls the storage holds the token the
\* latest successful call returned, and a failed call returns no token.
C9_Persisted ==
    /\ lastGood # Nil => StorageHolds(Deref(lastGood))
    /\ (last.op = "Token" /\ last.err # NoErr) => last.ret = Nil

\* C10: the source Config.TokenSource returns hands out the held token while it is
\* valid, without calling the underlying source or StoreToken; the underlying source is
\* called only when the held token is missing or expired, and a token it returns is
\* held from then on.
C10_Reuse ==
    [][last'.op = "ReuseToken"
        => /\ Valid(src.t, now)
                => /\ last'.ret = src.t /\ last'.err = NoErr
                   /\ last'.calls = <<>>
                   /\ StorageUnchanged /\ src' = src
           /\ last'.calls # <<>> => ~Valid(src.t, now)
           /\ (last'.calls # <<>> /\ last'.err = NoErr) => src'.t = last'.ret]_vars

\* C10 witness: the held token, obtained and stored by an earlier refresh, has just
\* been handed out again without any call
C10_Witness ==
    /\ last.op = "ReuseToken" /\ last.calls = <<>>
    /\ last.ret # Nil /\ last.ret = src.t
    /\ lastGood = src.t


\* C11 (as claimed): a StoreToken of the file backend that returns an error leaves the
\* storage as it was: RestoreToken returns what it returned before the failed call,
\* never an empty or partly written record.
C11_Atomic ==
    [][(kind = "file" /\ last'.op = "StoreToken" /\ last'.err # NoErr)
        => RestoreIn(fs', ID', rows') = RestoreIn(fs, ID, rows)]_vars

\* C12 (as claimed): once the StoreToken calls of the concurrent callers have all
\* completed, RestoreToken returns in full the record written last; and a RestoreToken
\* that ran while a StoreToken was in progress returns a stored record in full, never
\* an error for an empty or mixed file.
C12_LastWriteWins ==
    [][/\ (last'.op = "StoreToken" /\ \A p \in Storers : inflight'[p] = Nil)
            => /\ RestoreIn(fs', ID', rows').err = NoErr
               /\ RestoreIn(fs', ID', rows').token # Nil
               /\ TokenEq(Deref(RestoreIn(fs', ID', rows').token), Deref(last'.arg))
       /\ (inflight[Restorer] # Nil /\ inflight'[Restorer] = Nil)
            => /\ last'.err = NoErr
               /\ last'.ret # Nil
               /\ \E t \in ConcTokens : TokenEq(Deref(last'.ret), t)]_vars

\* C13 (as claimed): the storage never holds a token record whose access_token is
\* empty and whose expiry is the zero time, in no file and in no row.
C13_NoEmptyRecord ==
    /\ \A f \in Files :
        fs[f].exists =>
            LET r == csvRead(fs[f].data) IN
            ~(r.err = NoErr /\ Len(r.record) >= 4
                /\ r.record[1] = <<>> /\ r.record[3] = TimeString(ZeroTime))
    /\ \A n \in RowIds :
        rows[n] # Nil =>
            ~(Deref(rows[n]).access_token = <<>> /\ IsZero(ScanTime(Deref(rows[n]).expiry)))

\* The contents of the file of the configured identifier
Contents == fs[FileName(StoragePath, Sprint(TokenId))].data

\* C14: RestoreToken of the file backend over a file whose first record has fewer than
\* four fields fails with "File does not contain all fields", over one whose expiry
\* field is no timestamp of the layout it fails with the error of time.Parse; either
\* way it returns no token and leaves the files as they are.
C14_Malformed ==
    [][(kind = "file" /\ last'.op = "RestoreToken" /\ Configured
            /\ fs[FileName(StoragePath, Sprint(TokenId))].exists)
        => /\ Contents \in FewFields => last'.err = ErrFields /\ last'.ret = Nil
           /\ Contents \in BadExpiry => last'.err = ErrTimeParse /\ last'.ret = Nil
           /\ last'.ret # Nil => last'.err = NoErr /\ Contents \notin FewFields \cup BadExpiry
           /\ fs' = fs]_vars

\* C14 witness: RestoreToken has just refused a file of three fields
C14_Witness ==
    /\ kind = "file" /\ Configured
    /\ last.op = "RestoreToken" /\ last.err = ErrFields /\ last.ret = Nil
    /\ Contents = Line(<<<<"abc">>, <<"def">>, <<"bearer">>>>)

\* C15 (as claimed): a StoreToken of the relational backend that returns an error
\* while store.ID is unset has added no row to the table.
C15_FailedStore ==
    [][(kind = "sql" /\ last'.op = "StoreToken" /\ ID = Nil /\ last'.err # NoErr)
        => rows' = rows]_vars

=============================================================================
